---- MODULE Spec2Model ----
(***************************************************************************)
(* The command-line agent of agent.py: the session loop that reads a line, *)
(* asks the completion service for a reply, dispatches the tool calls of   *)
(* the reply one by one and appends the results to the conversation.       *)
(*                                                                         *)
(* Texts (user lines, assistant content, tool results) are sequences of    *)
(* string pieces; a user line is a sequence of characters.  The remote     *)
(* services (completion, weather, subprocess) are the environment: their   *)
(* replies are chosen nondeterministically from small sets.                *)
(***************************************************************************)
EXTENDS Integers, Sequences, FiniteSets, TLC

VARIABLES
    messages,     \* the conversation (list `messages`)
    user_prompt,  \* local `user_prompt`: the line read last
    pc,           \* position of the session loop
    iteration,    \* local `iteration` of the current turn
    completion,   \* local `completion`: the reply being processed
    idx,          \* position of the for loop over completion.tool_calls
    dispatched,   \* tool calls of `completion` the for loop has visited
    out,          \* what was printed to the terminal, in order
    invocations,  \* generate_response calls made since the last line read
    service       \* the environment: effort spent, next call id, signals sent

vars == <<messages, user_prompt, pc, iteration, completion, idx, dispatched, out,
          invocations, service>>

----------------------------------------------------------------------------
\* Bounds of the exploration

MaxEffort == 7         \* what the user and the services do in one session:
                       \* one for a line, one for a tool call, two more for
                       \* each departure from the usual line or reply
MaxPerResponse == 2    \* tool calls in one reply

----------------------------------------------------------------------------
\* Program constants

max_iterations == 5

SystemPrompt == <<"You are a helpful assistant.">>

NoContent == <<>>

NoCompletion == [content |-> NoContent, tool_calls |-> <<>>]

Msg(role, content) ==
    [role |-> role, content |-> content, tool_calls |-> <<>>, tool_call_id |-> 0]

\* Only the text of the reply is kept, its tool calls are dropped
CompletionMsgTextOnly(c) ==
    [role |-> "assistant", content |-> c.content, tool_calls |-> <<>>,
     tool_call_id |-> 0]

\* messages.append(completion): the reply object itself, content and calls
CompletionMsg(c) ==
    [role |-> "assistant", content |-> c.content, tool_calls |-> c.tool_calls,
     tool_call_id |-> 0]

\* The result filed under the position of the call instead of its id
ToolMsgOffByOne(id, text) ==
    [role |-> "tool", content |-> text, tool_calls |-> <<>>,
     tool_call_id |-> id + 1]

ToolMsg(id, text) ==
    [role |-> "tool", content |-> text, tool_calls |-> <<>>, tool_call_id |-> id]

----------------------------------------------------------------------------
\* str.lower() on the characters a line is made of

LowerChar(c) ==
    CASE c = "Q" -> "q"
      [] c = "U" -> "u"
      [] c = "I" -> "i"
      [] c = "T" -> "t"
      [] OTHER -> c

Lower(s) == [k \in 1..Len(s) |-> LowerChar(s[k])]

QuitToken == <<"q", "u", "i", "t">>

\* The comparison without lower()
IsQuitExact(line) == line = QuitToken

IsQuit(line) == Lower(line) = QuitToken

\* The lines the user types: the usual one, and the others
UsualLine == <<"h", "i">>

Lines ==
    { <<"q", "u", "i", "t">>, <<"Q", "U", "I", "T">>, <<"Q", "u", "i", "T">>,
      <<"q", "u", "i", "t", " ">>, UsualLine }

LineCost(line) == IF IsQuit(line) \/ line = UsualLine THEN 1 ELSE 3

----------------------------------------------------------------------------
\* The tool declarations sent with every request

Declarations ==
    << [name |-> "get_weather",
        properties |-> {"latitude", "longitude"},
        required |-> {"latitude", "longitude"}],
       [name |-> "run_command_in_bash",
        properties |-> {"command"},
        required |-> {"latitude", "longitude"}],
       [name |-> "get_time",
        properties |-> {"time_zone"},
        required |-> {"time_zone"}] >>

DeclaredNames == { Declarations[k].name : k \in 1..Len(Declarations) }

Declared(name) ==
    CHOOSE d \in { Declarations[k] : k \in 1..Len(Declarations) } : d.name = name

----------------------------------------------------------------------------
\* Argument texts and json.loads

ArgsWeather == "{\"latitude\": 52, \"longitude\": 13}"
ArgsCommand == "{\"command\": \"cat notes\"}"
ArgsZoneUTC == "{\"time_zone\": \"UTC\"}"
ArgsZoneMars == "{\"time_zone\": \"Mars/OlympusMons\"}"
ArgsEmpty == "{}"
ArgsArray == "[52, 13]"
ArgsBroken == "{\"latitude\": 52,"

Parsed(kind, value) == [kind |-> kind, value |-> value]

JsonLoads(text) ==
    CASE text = ArgsWeather -> Parsed("object", [latitude |-> 52, longitude |-> 13])
      [] text = ArgsCommand -> Parsed("object", [command |-> "cat notes"])
      [] text = ArgsZoneUTC -> Parsed("object", [time_zone |-> "UTC"])
      [] text = ArgsZoneMars -> Parsed("object", [time_zone |-> "Mars/OlympusMons"])
      [] text = ArgsEmpty -> Parsed("object", <<>>)
      [] text = ArgsArray -> Parsed("array", <<52, 13>>)
      [] OTHER -> Parsed("JSONDecodeError", <<>>)

\* args[key]: KeyError on an object without the key, TypeError on a list
Subscript(args, key) ==
    IF args.kind = "object"
    THEN IF key \in DOMAIN args.value
         THEN [raised |-> "none", value |-> args.value[key]]
         ELSE [raised |-> "KeyError", value |-> key]
    ELSE [raised |-> "TypeError", value |-> key]

Return(v) == [raised |-> "none", value |-> v]
Raise(e, v) == [raised |-> e, value |-> v]

----------------------------------------------------------------------------
\* The tool implementations.  Each returns Return(text) or Raise(exception).

\* str(result) of the temperature reading
Str(n) ==
    CASE n = 21 -> "21"
      [] n = 0 -> "0"
      [] OTHER -> "?"

\* What the weather provider answers
WeatherReplies ==
    { [kind |-> "json",
       data |-> [current |-> [temperature_2m |-> 21, wind_speed_10m |-> 3]]],
      [kind |-> "json",
       data |-> [current |-> [wind_speed_10m |-> 3]]],
      [kind |-> "not_json", data |-> <<>>],
      [kind |-> "no_connection", data |-> <<>>] }

get_weather(latitude, longitude, reply) ==
    IF reply.kind = "no_connection" THEN Raise("ConnectionError", "requests.get")
    ELSE IF reply.kind = "not_json" THEN Raise("JSONDecodeError", "response.json")
    ELSE IF "current" \notin DOMAIN reply.data THEN Raise("KeyError", "current")
    ELSE IF "temperature_2m" \notin DOMAIN reply.data["current"]
         THEN Raise("KeyError", "temperature_2m")
    ELSE Return(reply.data["current"]["temperature_2m"])

KnownZones == {"UTC", "Europe/London", "America/New_York"}

\* interrupted: a KeyboardInterrupt reaches the try block before
\* `import pytz` has bound the local name pytz; the except clause then
\* evaluates pytz.exceptions and raises UnboundLocalError in its place
get_time(time_zone, interrupted) ==
    IF interrupted THEN Raise("UnboundLocalError", "pytz")
    ELSE IF time_zone \in KnownZones
    THEN Return(<<"2026-11-01 12:00:00 ", time_zone>>)
    ELSE Return(<<"Error: Unknown timezone '", time_zone,
                  "'. Please use a valid timezone name.">>)

Whitespace == {" ", "\n"}

RECURSIVE LStrip(_)
LStrip(s) ==
    IF s # <<>> /\ Head(s) \in Whitespace THEN LStrip(Tail(s)) ELSE s

RECURSIVE RStrip(_)
RStrip(s) ==
    IF s # <<>> /\ s[Len(s)] \in Whitespace
    THEN RStrip(SubSeq(s, 1, Len(s) - 1))
    ELSE s

Strip(s) == RStrip(LStrip(s))

\* What the subprocess does
ProcOutcomes ==
    { [returncode |-> 0, stdout |-> <<"milk", "\n">>, stderr |-> <<>>],
      [returncode |-> 1, stdout |-> <<>>, stderr |-> <<"no such file", "\n">>] }

\* subprocess.run(check=True) without the except clause around it
run_command_in_bashUncaught(command, proc) ==
    IF proc.returncode = 0
    THEN Return(Strip(proc.stdout))
    ELSE Raise("CalledProcessError", proc.returncode)

run_command_in_bash(command, proc) ==
    IF proc.returncode = 0
    THEN Return(Strip(proc.stdout))
    ELSE Return(<<"Error executing command: ">> \o Strip(proc.stderr))

----------------------------------------------------------------------------
\* The body of the try block around one tool call: parse, select, call.

CallTool(tool_call, reply, proc, interrupted) ==
    LET args == JsonLoads(tool_call.arguments)
        function_name == tool_call.name
    IN  IF args.kind = "JSONDecodeError"
        THEN Raise("JSONDecodeError", "json.loads")
        ELSE IF function_name = "get_weather"
        THEN LET lat == Subscript(args, "latitude")
                 lon == Subscript(args, "longitude")
             IN  IF lat.raised # "none" THEN lat
                 ELSE IF lon.raised # "none" THEN lon
                 ELSE LET r == get_weather(lat.value, lon.value, reply)
                      IN  IF r.raised = "none" THEN Return(<<Str(r.value)>>) ELSE r
        ELSE IF function_name = "get_time"
        THEN LET tz == Subscript(args, "time_zone")
             IN  IF tz.raised # "none" THEN tz
                 ELSE get_time(tz.value, interrupted)
        ELSE IF function_name = "run_command_in_bash"
        THEN LET cmd == Subscript(args, "command")
             IN  IF cmd.raised # "none" THEN cmd
                 ELSE run_command_in_bash(cmd.value, proc)
        ELSE Raise("ValueError", function_name)

\* The except clauses, in order: which diagnostic an exception prints
ExceptClause(e) ==
    IF e = "JSONDecodeError" THEN "Error parsing tool arguments:"
    ELSE IF e = "KeyError" THEN "Missing required argument:"
    ELSE "Error executing tool call:"

----------------------------------------------------------------------------
\* The completion service (environment).  A reply carries optional text and
\* a list of tool calls; the ids of one reply are distinct.

Usual == [name |-> "get_time", arguments |-> ArgsZoneUTC]

OddShapes ==
    { [name |-> "get_weather", arguments |-> ArgsWeather],
      [name |-> "get_weather", arguments |-> ArgsEmpty],
      [name |-> "get_time", arguments |-> ArgsZoneMars],
      [name |-> "get_time", arguments |-> ArgsBroken],
      [name |-> "run_command_in_bash", arguments |-> ArgsCommand],
      [name |-> "run_command_in_bash", arguments |-> ArgsWeather],
      [name |-> "send_mail", arguments |-> ArgsArray] }

Shapes == {Usual} \cup OddShapes

ShapeSeqs == UNION { [1..n -> Shapes] : n \in 0..MaxPerResponse }

OddCount(shapes) == Cardinality({ k \in DOMAIN shapes : shapes[k] # Usual })

Contents == { NoContent, <<"Here you go.">> }

\* Ids of a reply are base, base+1, ...: new ones, or the ones of an
\* earlier reply again (ids are only unique within one reply)
IdBases(sv) == {sv.nextId} \cup (IF sv.nextId > 1 THEN {1} ELSE {})

ToolCalls(shapes, base) ==
    [k \in 1..Len(shapes) |->
        [id |-> base + k - 1, name |-> shapes[k].name,
         arguments |-> shapes[k].arguments]]

Cost(sv, c, shapes, base) ==
    Len(shapes) + 2 * (OddCount(shapes)
    + (IF c # NoContent THEN 1 ELSE 0)
    + (IF shapes # <<>> /\ base # sv.nextId THEN 1 ELSE 0))

Max(a, b) == IF a >= b THEN a ELSE b

\* The lists of tool calls a reply may carry, each with what it costs
PricedShapes ==
    { [shapes |-> q, price |-> Len(q) + 2 * OddCount(q)] : q \in ShapeSeqs }

\* The replies the service may give in state sv, with the state it is left in
Replies(sv) ==
    { [content |-> c, tool_calls |-> ToolCalls(ps.shapes, base),
       after |-> [sv EXCEPT !.spent = @ + Cost(sv, c, ps.shapes, base),
                            !.nextId = IF ps.shapes = <<>> THEN @
                                       ELSE Max(@, base + Len(ps.shapes))]] :
        c \in Contents,
        ps \in { p \in PricedShapes : sv.spent + p.price <= MaxEffort },
        base \in IdBases(sv) }

Affordable(sv) == { r \in Replies(sv) : r.after.spent <= MaxEffort }

----------------------------------------------------------------------------
\* The session loop

Init ==
    /\ messages = << Msg("system", SystemPrompt) >>
    /\ user_prompt = <<>>
    /\ pc = "AwaitingUserInput"
    /\ iteration = 0
    /\ completion = NoCompletion
    /\ idx = 1
    /\ dispatched = <<>>
    /\ out = <<>>
    /\ invocations = 0
    /\ service = [spent |-> 0, nextId |-> 1, signals |-> 0]

\* while iteration <= max_iterations
LoopTestInclusive(i) ==
    IF i <= max_iterations THEN "AwaitingCompletion" ELSE "Exhausted"

\* while iteration < max_iterations, evaluated when the loop body has ended
LoopTest(i) == IF i < max_iterations THEN "AwaitingCompletion" ELSE "Exhausted"

\* The turn without `iteration = 0`: the counter of the turn before is kept
ReadLineKeepsCount ==
    /\ pc = "AwaitingUserInput"
    /\ \E line \in { l \in Lines : service.spent + LineCost(l) <= MaxEffort } :
          /\ user_prompt' = line
          /\ IF IsQuit(line)
             THEN /\ pc' = "Exited"
                  /\ UNCHANGED <<messages, invocations>>
             ELSE /\ messages' = Append(messages, Msg("user", line))
                  /\ invocations' = 0
                  /\ pc' = LoopTest(iteration)
          /\ service' = [service EXCEPT !.spent = @ + LineCost(line)]
    /\ out' = Append(out, "Enter a prompt for the AI (or 'quit' to exit): ")
    /\ UNCHANGED <<iteration, completion, idx, dispatched>>

\* print the prompt, input(), the quit test, the user message, the counters
ReadLine ==
    /\ pc = "AwaitingUserInput"
    /\ \E line \in { l \in Lines : service.spent + LineCost(l) <= MaxEffort } :
          /\ user_prompt' = line
          /\ IF IsQuit(line)
             THEN /\ pc' = "Exited"
                  /\ UNCHANGED <<messages, iteration, invocations>>
             ELSE /\ messages' = Append(messages, Msg("user", line))
                  /\ iteration' = 0
                  /\ invocations' = 0
                  /\ pc' = LoopTest(0)
          /\ service' = [service EXCEPT !.spent = @ + LineCost(line)]
    /\ out' = Append(out, "Enter a prompt for the AI (or 'quit' to exit): ")
    /\ UNCHANGED <<completion, idx, dispatched>>

\* input() at end of input: EOFError, caught by the outer except Exception
ReadEOF ==
    /\ pc = "AwaitingUserInput"
    /\ service.spent + 3 <= MaxEffort
    /\ out' = out \o <<"Enter a prompt for the AI (or 'quit' to exit): ",
                       "An error occurred:">>
    /\ service' = [service EXCEPT !.spent = @ + 3]
    /\ UNCHANGED <<messages, user_prompt, pc, iteration, completion, idx,
                   dispatched, invocations>>

\* The pass that appends the completion first and its text after it
CompleteCallsFirst ==
    /\ pc = "AwaitingCompletion"
    /\ \E r \in Affordable(service) :
          LET c == [content |-> r.content, tool_calls |-> r.tool_calls]
              called == IF c.tool_calls # <<>>
                        THEN Append(messages, CompletionMsg(c))
                        ELSE messages
          IN  /\ completion' = c
              /\ out' = IF c.content # NoContent THEN Append(out, "Assistant:")
                        ELSE out
              /\ messages' = IF c.content # NoContent
                             THEN Append(called, Msg("assistant", c.content))
                             ELSE called
              /\ pc' = IF c.tool_calls # <<>> THEN "DispatchingTools" ELSE "Done"
              /\ service' = r.after
    /\ iteration' = iteration + 1
    /\ invocations' = invocations + 1
    /\ idx' = 1
    /\ dispatched' = <<>>
    /\ UNCHANGED user_prompt

\* The pass without `else: break`: a reply with no tool calls goes back to
\* the while test
CompleteNoBreak ==
    /\ pc = "AwaitingCompletion"
    /\ \E r \in Affordable(service) :
          LET c == [content |-> r.content, tool_calls |-> r.tool_calls]
              said == IF c.content # NoContent
                      THEN Append(messages, Msg("assistant", c.content))
                      ELSE messages
          IN  /\ completion' = c
              /\ out' = IF c.content # NoContent THEN Append(out, "Assistant:")
                        ELSE out
              /\ IF c.tool_calls # <<>>
                 THEN /\ messages' = Append(said, CompletionMsg(c))
                      /\ pc' = "DispatchingTools"
                 ELSE /\ messages' = said
                      /\ pc' = LoopTest(iteration + 1)
              /\ service' = r.after
    /\ iteration' = iteration + 1
    /\ invocations' = invocations + 1
    /\ idx' = 1
    /\ dispatched' = <<>>
    /\ UNCHANGED user_prompt

\* The pass without `iteration += 1`
CompleteUncounted ==
    /\ pc = "AwaitingCompletion"
    /\ \E r \in Affordable(service) :
          LET c == [content |-> r.content, tool_calls |-> r.tool_calls]
              said == IF c.content # NoContent
                      THEN Append(messages, Msg("assistant", c.content))
                      ELSE messages
          IN  /\ completion' = c
              /\ out' = IF c.content # NoContent THEN Append(out, "Assistant:")
                        ELSE out
              /\ IF c.tool_calls # <<>>
                 THEN /\ messages' = Append(said, CompletionMsg(c))
                      /\ pc' = "DispatchingTools"
                 ELSE /\ messages' = said
                      /\ pc' = "Done"
              /\ service' = r.after
    /\ iteration' = iteration
    /\ invocations' = invocations + 1
    /\ idx' = 1
    /\ dispatched' = <<>>
    /\ UNCHANGED user_prompt

\* One pass of the while body up to the for loop: the request succeeds
Complete ==
    /\ pc = "AwaitingCompletion"
    /\ \E r \in Affordable(service) :
          LET c == [content |-> r.content, tool_calls |-> r.tool_calls]
              said == IF c.content # NoContent
                      THEN Append(messages, Msg("assistant", c.content))
                      ELSE messages
          IN  /\ completion' = c
              /\ out' = IF c.content # NoContent THEN Append(out, "Assistant:")
                        ELSE out
              /\ IF c.tool_calls # <<>>
                 THEN /\ messages' = Append(said, CompletionMsg(c))
                      /\ pc' = "DispatchingTools"
                 ELSE /\ messages' = said
                      /\ pc' = "Done"
              /\ service' = r.after
    /\ iteration' = iteration + 1
    /\ invocations' = invocations + 1
    /\ idx' = 1
    /\ dispatched' = <<>>
    /\ UNCHANGED user_prompt

\* The except clause goes on with the loop instead of leaving it
CompleteFailsRetry ==
    /\ pc = "AwaitingCompletion"
    /\ iteration' = iteration + 1
    /\ invocations' = invocations + 1
    /\ out' = Append(out, "Error in completion:")
    /\ pc' = LoopTest(iteration + 1)
    /\ UNCHANGED <<messages, user_prompt, completion, idx, dispatched, service>>

\* generate_response raises: except Exception, break
CompleteFails ==
    /\ pc = "AwaitingCompletion"
    /\ iteration' = iteration + 1
    /\ invocations' = invocations + 1
    /\ out' = Append(out, "Error in completion:")
    /\ pc' = "Failed"
    /\ UNCHANGED <<messages, user_prompt, completion, idx, dispatched, service>>

\* The for loop running over reversed(completion.tool_calls)
NextCallReversed(tool_calls, k) == tool_calls[Len(tool_calls) + 1 - k]

\* The tool call the for loop visits at position k
NextCall(tool_calls, k) == tool_calls[k]

\* The except clauses file the error text as the result of the call
AppendedAlways(tool_call, r) ==
    IF r.raised = "none" THEN << ToolMsg(tool_call.id, r.value) >>
    ELSE << ToolMsg(tool_call.id, <<ExceptClause(r.raised), r.value>>) >>

\* The result filed under the id of the first call of the reply
AppendedUnderFirstId(tool_call, r) ==
    IF r.raised = "none"
    THEN << ToolMsg(completion.tool_calls[1].id, r.value) >>
    ELSE <<>>

\* What the try block of one tool call appends to the conversation
Appended(tool_call, r) ==
    IF r.raised = "none" THEN << ToolMsg(tool_call.id, r.value) >> ELSE <<>>

\* The pass with the try block around the for loop instead of inside it: an
\* exception of one call leaves the for loop and the while loop
DispatchToolStopsOnError ==
    /\ pc = "DispatchingTools"
    /\ idx <= Len(completion.tool_calls)
    /\ LET tool_call == NextCall(completion.tool_calls, idx)
       IN  /\ \E reply \in WeatherReplies, proc \in ProcOutcomes,
                    interrupted \in BOOLEAN :
                 LET r == CallTool(tool_call, reply, proc, interrupted)
                 IN  /\ interrupted =>
                            /\ r.raised = "UnboundLocalError"
                            /\ service.spent + 2 <= MaxEffort
                     /\ messages' = messages \o Appended(tool_call, r)
                     /\ out' = out \o <<"Tool Request:",
                                  IF r.raised = "none" THEN "Tool Result:"
                                  ELSE ExceptClause(r.raised)>>
                     /\ service' = IF interrupted
                                   THEN [service EXCEPT !.spent = @ + 2,
                                                        !.signals = @ + 1]
                                   ELSE service
                     /\ pc' = IF r.raised # "none" THEN "Failed"
                              ELSE IF idx < Len(completion.tool_calls)
                              THEN "DispatchingTools"
                              ELSE LoopTest(iteration)
           /\ dispatched' = Append(dispatched, tool_call)
    /\ idx' = idx + 1
    /\ UNCHANGED <<user_prompt, iteration, completion, invocations>>

\* One pass of the for loop over completion.tool_calls
DispatchTool ==
    /\ pc = "DispatchingTools"
    /\ idx <= Len(completion.tool_calls)
    /\ LET tool_call == NextCall(completion.tool_calls, idx)
       IN  /\ \E reply \in WeatherReplies, proc \in ProcOutcomes,
                    interrupted \in BOOLEAN :
                 LET r == CallTool(tool_call, reply, proc, interrupted)
                 IN  /\ interrupted =>
                            /\ r.raised = "UnboundLocalError"
                            /\ service.spent + 2 <= MaxEffort
                     /\ messages' = messages \o Appended(tool_call, r)
                     /\ out' = out \o <<"Tool Request:",
                                  IF r.raised = "none" THEN "Tool Result:"
                                  ELSE ExceptClause(r.raised)>>
                     /\ service' = IF interrupted
                                   THEN [service EXCEPT !.spent = @ + 2,
                                                        !.signals = @ + 1]
                                   ELSE service
           /\ dispatched' = Append(dispatched, tool_call)
    /\ idx' = idx + 1
    /\ pc' = IF idx < Len(completion.tool_calls) THEN "DispatchingTools"
             ELSE LoopTest(iteration)
    /\ UNCHANGED <<user_prompt, iteration, completion, invocations>>

\* "Starting fresh" taken at its word: the conversation is cut back to the
\* system prompt when the warning is printed
EndTurnStartingFresh ==
    /\ pc \in {"Done", "Failed", "Exhausted"}
    /\ out' = IF iteration = max_iterations
              THEN Append(out, "Reached maximum number of iterations. Starting fresh.")
              ELSE out
    /\ messages' = IF iteration = max_iterations
                   THEN << Msg("system", SystemPrompt) >>
                   ELSE messages
    /\ pc' = "AwaitingUserInput"
    /\ UNCHANGED <<user_prompt, iteration, completion, idx,
                   dispatched, invocations, service>>

\* After the while loop: the warning, then back to the prompt
EndTurn ==
    /\ pc \in {"Done", "Failed", "Exhausted"}
    /\ out' = IF iteration = max_iterations
              THEN Append(out, "Reached maximum number of iterations. Starting fresh.")
              ELSE out
    /\ pc' = "AwaitingUserInput"
    /\ UNCHANGED <<messages, user_prompt, iteration, completion, idx,
                   dispatched, invocations, service>>

Running == pc \notin {"Exited", "Aborted"}

\* KeyboardInterrupt handled like the other errors: print, next prompt
InterruptContinues ==
    /\ Running
    /\ out' = Append(out, "Exiting...")
    /\ pc' = "AwaitingUserInput"
    /\ service' = [service EXCEPT !.signals = @ + 1]
    /\ UNCHANGED <<messages, user_prompt, iteration, completion, idx,
                   dispatched, invocations>>

\* KeyboardInterrupt anywhere in the outer try: print, break
Interrupt ==
    /\ Running
    /\ out' = Append(out, "Exiting...")
    /\ pc' = "Aborted"
    /\ service' = [service EXCEPT !.signals = @ + 1]
    /\ UNCHANGED <<messages, user_prompt, iteration, completion, idx,
                   dispatched, invocations>>

Next ==
    \/ ReadLine
    \/ ReadEOF
    \/ Complete
    \/ CompleteFails
    \/ DispatchTool
    \/ EndTurn
    \/ Interrupt

Spec == Init /\ [][Next]_vars

\* What the loop does by itself once a line is read
Proceed == EndTurn \/ DispatchTool \/ CompleteFails \/ Complete

\* The loop is sequential code: once a line is read, every request and
\* every tool call returns or raises, and the statement after it runs.
\* Nothing makes the user type a line or send a signal.
FairSpec == Spec /\ WF_vars(Proceed)

TypeOK ==
    /\ pc \in {"AwaitingUserInput", "AwaitingCompletion", "DispatchingTools",
               "Done", "Failed", "Exhausted", "Exited", "Aborted"}
    /\ iteration \in 0..max_iterations
    /\ invocations \in 0..max_iterations
    /\ service.spent \in 0..MaxEffort
    /\ idx \in 1..(MaxPerResponse + 1)

----------------------------------------------------------------------------
\* Vocabulary of the properties

Last(s) == s[Len(s)]

ToolRequest == "Tool Request:"
ToolResult == "Tool Result:"
ParseDiagnostic == "Error parsing tool arguments:"
MissingDiagnostic == "Missing required argument:"
ExecDiagnostic == "Error executing tool call:"
CompletionDiagnostic == "Error in completion:"
AbandonWarning == "Reached maximum number of iterations. Starting fresh."

ToolEndings == {ToolResult, ParseDiagnostic, MissingDiagnostic, ExecDiagnostic}

IsPrefix(s, t) == Len(s) <= Len(t) /\ SubSeq(t, 1, Len(s)) = s

BearsCalls(m) == m.role = "assistant" /\ m.tool_calls # <<>>

Ids(tool_calls) == { tool_calls[k].id : k \in 1..Len(tool_calls) }

\* The step just taken ran the try block of one tool call
DispatchStep == Len(dispatched') = Len(dispatched) + 1

----------------------------------------------------------------------------
\* C1: while one reply is processed the dispatch attempts are the reply's
\* tool calls, in the reply's order, each once; an attempt is over (result
\* printed or diagnostic printed) before the next one is announced.
DispatchFollowsReply ==
    /\ Len(dispatched) <= Len(completion.tool_calls)
    /\ dispatched = SubSeq(completion.tool_calls, 1, Len(dispatched))
    /\ pc = "DispatchingTools" =>
          Len(dispatched) = idx - 1 /\ idx <= Len(completion.tool_calls)
    /\ pc \notin {"DispatchingTools", "Aborted"} =>
          dispatched = completion.tool_calls
    /\ \A p \in 1..Len(out) :
          out[p] = ToolRequest => p < Len(out) /\ out[p + 1] \in ToolEndings

\* A reply with two calls has been dispatched to the end
TwoCallsDispatched ==
    /\ pc = "AwaitingCompletion"
    /\ Len(completion.tool_calls) = 2
    /\ dispatched = completion.tool_calls
    /\ dispatched[1] # dispatched[2]

----------------------------------------------------------------------------
\* C3: every tool message answers a tool call of an assistant message that
\* stands earlier in the conversation.
ToolMessagesAnswerEarlierCalls ==
    \A k \in 1..Len(messages) :
        messages[k].role = "tool" =>
            \E j \in 1..(k - 1) :
                /\ BearsCalls(messages[j])
                /\ messages[k].tool_call_id \in Ids(messages[j].tool_calls)

\* A tool message stands in the conversation
SomeToolMessage ==
    \E k \in 1..Len(messages) :
        messages[k].role = "tool" /\ messages[k].tool_call_id > 0

----------------------------------------------------------------------------
\* The current turn, read off the conversation

UserPositions == { k \in 1..Len(messages) : messages[k].role = "user" }

LastUser ==
    IF UserPositions = {} THEN 0
    ELSE CHOOSE k \in UserPositions : \A j \in UserPositions : j <= k

\* Replies with tool calls appended since the line of this turn
TurnToolReplies ==
    Cardinality({ k \in (LastUser + 1)..Len(messages) : BearsCalls(messages[k]) })

\* Every completion invocation of this turn returned tool calls
AlwaysTools == invocations > 0 /\ TurnToolReplies = invocations

\* The while loop of the turn has been left
TurnOver == pc \in {"Done", "Failed", "Exhausted"}

----------------------------------------------------------------------------
\* C2: when every completion of a turn returns tool calls, the turn makes
\* exactly max_iterations (5) invocations, never stops before the fifth, makes
\* no sixth, then prints the warning and goes back to the prompt with the
\* conversation as it was; the next turn only appends to it.
AbandonedAfterFive ==
    /\ [](AlwaysTools =>
            /\ invocations <= max_iterations
            /\ invocations < max_iterations =>
                  ~TurnOver /\ pc # "AwaitingUserInput"
            /\ invocations = max_iterations => pc # "AwaitingCompletion"
            /\ TurnOver => invocations = max_iterations)
    /\ [][(AlwaysTools /\ TurnOver) =>
             \/ pc' = "Aborted"
             \/ /\ pc' = "AwaitingUserInput"
                /\ out' = Append(out, AbandonWarning)
                /\ messages' = messages]_vars
    /\ [][pc = "AwaitingUserInput" => IsPrefix(messages, messages')]_vars

\* A turn of five replies with tool calls has ended and the prompt is shown
FiveRoundsThenPrompt ==
    /\ pc = "AwaitingUserInput"
    /\ AlwaysTools
    /\ invocations = max_iterations
    /\ Last(out) = AbandonWarning
    /\ service.spent < MaxEffort

----------------------------------------------------------------------------
\* The tool messages of the conversation, by groups

Bearing == { k \in 1..Len(messages) : BearsCalls(messages[k]) }

ToolPositions == { k \in 1..Len(messages) : messages[k].role = "tool" }

\* A group of tool messages starts where a tool message follows another kind
GroupStarts ==
    { k \in ToolPositions : k = 1 \/ messages[k - 1].role # "tool" }

\* The tool calls that stand before position k and carry the id of message k
PriorCalls(k) ==
    { jp \in Bearing \X (1..MaxPerResponse) :
        /\ jp[1] < k
        /\ jp[2] <= Len(messages[jp[1]].tool_calls)
        /\ messages[jp[1]].tool_calls[jp[2]].id = messages[k].tool_call_id }

\* The nearest assistant message with tool calls before position k, or 0
Owner(k) ==
    LET before == { j \in Bearing : j < k }
    IN  IF before = {} THEN 0
        ELSE CHOOSE j \in before : \A i \in before : i <= j

\* The positions in the reply at Owner(k) of the calls message k may answer
Answered(k) ==
    { p \in 1..Len(messages[Owner(k)].tool_calls) :
        messages[Owner(k)].tool_calls[p].id = messages[k].tool_call_id }

\* C4 as stated: at Done there are as many groups of tool messages as
\* assistant messages with tool calls, and every tool message's id is the id
\* of exactly one earlier tool call.
GroupsMatchRepliesAtDone ==
    pc = "Done" =>
        /\ Cardinality(GroupStarts) = Cardinality(Bearing)
        /\ \A k \in ToolPositions : Cardinality(PriorCalls(k)) = 1

\* C4 amended: at Done there are at most as many groups of tool messages as
\* assistant messages with tool calls; every tool message stands in the
\* group right after the assistant message it answers, carries the id of
\* exactly one tool call of that message, and the group is in call order.
GroupsFollowRepliesAtDone ==
    pc = "Done" =>
        /\ Cardinality(GroupStarts) <= Cardinality(Bearing)
        /\ \A k \in ToolPositions :
              /\ Owner(k) > 0
              /\ \A i \in (Owner(k) + 1)..k : messages[i].role = "tool"
              /\ Cardinality(Answered(k)) = 1
              /\ \A i \in (Owner(k) + 1)..(k - 1) :
                    \A p \in Answered(i), q \in Answered(k) : p < q

\* Done is reached with a reply whose calls were all skipped
DoneWithSkippedReply ==
    /\ pc = "Done"
    /\ ToolPositions # {}
    /\ Cardinality(GroupStarts) < Cardinality(Bearing)

----------------------------------------------------------------------------
\* The arguments of a call hold exactly the names its declaration requires
ExactlyRequired(tool_call) ==
    /\ tool_call.name \in DeclaredNames
    /\ JsonLoads(tool_call.arguments).kind = "object"
    /\ DOMAIN JsonLoads(tool_call.arguments).value
          = Declared(tool_call.name).required

\* The call lacks an argument its implementation is called with: the
\* KeyError comes from the argument record, whatever the tools would answer
LacksArgument(tool_call) ==
    \A reply \in WeatherReplies, proc \in ProcOutcomes :
        CallTool(tool_call, reply, proc, FALSE).raised = "KeyError"

\* C5 as stated: a call to a declared tool whose arguments hold exactly the
\* required names of its declaration never ends with the missing-argument
\* outcome.
RequiredNamesSuffice ==
    (/\ dispatched # <<>>
     /\ Last(out) = MissingDiagnostic
     /\ LacksArgument(Last(dispatched)))
    => ~ExactlyRequired(Last(dispatched))

----------------------------------------------------------------------------
\* C6 as stated: at the end of a turn the warning is printed exactly when
\* the loop ran out of iterations without reaching Done, and the
\* conversation stays as it is either way.
WarningOnlyWhenAbandoned ==
    [][(TurnOver /\ pc' = "AwaitingUserInput") =>
          /\ (out' = Append(out, AbandonWarning)) <=> (pc = "Exhausted")
          /\ (out' = out) <=> (pc # "Exhausted")
          /\ messages' = messages]_vars

----------------------------------------------------------------------------
\* The failures of one tool call that C7 names
ParseFailure(tool_call) == JsonLoads(tool_call.arguments).kind = "JSONDecodeError"

UnknownTool(tool_call) ==
    ~ParseFailure(tool_call) /\ tool_call.name \notin DeclaredNames

\* C7: a tool call that fails to parse, lacks an argument or names an
\* unknown tool leaves the conversation as it was before the call.
FailedCallAppendsNothing ==
    [][(/\ DispatchStep
        /\ \/ ParseFailure(Last(dispatched'))
           \/ UnknownTool(Last(dispatched'))
           \/ Last(out') \in {ParseDiagnostic, MissingDiagnostic})
       => messages' = messages]_vars

\* A call to an unknown tool has just been skipped
UnknownToolSkipped ==
    /\ dispatched # <<>>
    /\ UnknownTool(Last(dispatched))
    /\ Last(out) = ExecDiagnostic
    /\ Last(messages).role # "tool"

----------------------------------------------------------------------------
\* The step just taken was a completion request that failed
FailureStep == out' = Append(out, CompletionDiagnostic)

\* C8: a failed completion request leaves the conversation as it is and ends
\* the turn: no further request is made before the next line is read, and
\* the loop goes back to the prompt.
FailureEndsTurnOnly ==
    /\ [][FailureStep => messages' = messages /\ pc' = "Failed"]_vars
    /\ [][pc = "Failed" =>
             /\ messages' = messages
             /\ invocations' = invocations
             /\ pc' \in {"AwaitingUserInput", "Aborted"}]_vars
    /\ [][pc = "AwaitingUserInput" =>
             \/ invocations' = invocations /\ messages' = messages
             \/ /\ invocations' = 0
                /\ messages' = Append(messages, Msg("user", user_prompt'))
                /\ pc' = "AwaitingCompletion"]_vars

\* The turn that followed a failed request has made a request of its own
TurnAfterFailure ==
    /\ \E p \in 1..Len(out) : out[p] = CompletionDiagnostic
    /\ Cardinality(UserPositions) = 2
    /\ invocations > 0
    /\ pc = "Done"

----------------------------------------------------------------------------
\* C9 as stated: a cancellation signal in any running state moves the
\* session to Aborted, where nothing happens any more.
SignalAborts ==
    /\ [](Running => ENABLED Interrupt)
    /\ [][service'.signals > service.signals => pc' = "Aborted"]_vars
    /\ [][pc # "Aborted"]_vars

----------------------------------------------------------------------------
\* quit in any letter case
QuitSpellings ==
    { <<a, b, c, d>> : a \in {"q", "Q"}, b \in {"u", "U"},
                       c \in {"i", "I"}, d \in {"t", "T"} }

\* The step just taken read a line
ReadStep == out' = Append(out, "Enter a prompt for the AI (or 'quit' to exit): ")

\* C10: the line quit, in any letter case, ends the session with no user
\* message and no completion; any other line starts a turn.
QuitEndsSession ==
    /\ [][ReadStep =>
             IF user_prompt' \in QuitSpellings
             THEN /\ pc' = "Exited"
                  /\ messages' = messages
                  /\ invocations' = invocations
             ELSE /\ pc' = "AwaitingCompletion"
                  /\ messages' = Append(messages, Msg("user", user_prompt'))
                  /\ invocations' = 0]_vars
    /\ [][pc # "Exited"]_vars

\* The session has ended on a quit that is not in lower case
QuitInUpperCase ==
    /\ pc = "Exited"
    /\ user_prompt \in QuitSpellings \ {QuitToken}

----------------------------------------------------------------------------
\* The step just taken ran a tool call to its end with no signal delivered
QuietDispatchStep == DispatchStep /\ service'.signals = service.signals

\* The arguments of the call parse to an object that holds the key
HasArgument(tool_call, key) ==
    /\ JsonLoads(tool_call.arguments).kind = "object"
    /\ key \in DOMAIN JsonLoads(tool_call.arguments).value

Argument(tool_call, key) == JsonLoads(tool_call.arguments).value[key]

Contains(text, piece) == \E p \in 1..Len(text) : text[p] = piece

\* t is s without the whitespace at its two ends
Trimmed(t, s) ==
    /\ t = <<>> \/ (t[1] \notin Whitespace /\ t[Len(t)] \notin Whitespace)
    /\ \E a \in 0..Len(s) :
          /\ a + Len(t) <= Len(s)
          /\ \A p \in 1..Len(t) : s[a + p] = t[p]
          /\ \A p \in 1..Len(s) : (p <= a \/ p > a + Len(t)) => s[p] \in Whitespace

TimeErrorMark == "Error: Unknown timezone '"
CommandErrorMark == "Error executing command: "

\* The step appended one tool message for the call and printed its result
FiledAsResult(tool_call) ==
    /\ Len(messages') = Len(messages) + 1
    /\ SubSeq(messages', 1, Len(messages)) = messages
    /\ Last(messages').role = "tool"
    /\ Last(messages').tool_call_id = tool_call.id
    /\ out' = out \o <<ToolRequest, ToolResult>>

\* C11: a time lookup with an unknown zone and a command that exits with a
\* non-zero code are results, not errors: the call returns a text that starts
\* with an error mark and holds the zone name, respectively the trimmed
\* stderr, the loop appends a tool message with the id of the call and that
\* text, and prints the result and no diagnostic.
SoftFailureIsResult ==
    [][QuietDispatchStep =>
          LET tool_call == Last(dispatched')
              text == Last(messages').content
          IN  /\ (/\ tool_call.name = "get_time"
                  /\ HasArgument(tool_call, "time_zone")
                  /\ Argument(tool_call, "time_zone") \notin KnownZones)
                 => /\ FiledAsResult(tool_call)
                    /\ text[1] = TimeErrorMark
                    /\ Contains(text, Argument(tool_call, "time_zone"))
              /\ (/\ tool_call.name = "run_command_in_bash"
                  /\ HasArgument(tool_call, "command"))
                 => /\ FiledAsResult(tool_call)
                    /\ \E proc \in ProcOutcomes :
                          IF proc.returncode = 0
                          THEN Trimmed(text, proc.stdout)
                          ELSE /\ text[1] = CommandErrorMark
                               /\ Trimmed(Tail(text), proc.stderr)]_vars

\* Both soft failures stand in the conversation as tool messages
BothSoftFailuresFiled ==
    /\ \E k \in ToolPositions :
          /\ messages[k].content[1] = TimeErrorMark
          /\ Contains(messages[k].content, "Mars/OlympusMons")
    /\ \E k \in ToolPositions :
          messages[k].content = <<CommandErrorMark, "no such file">>
    /\ \A p \in 1..Len(out) :
          out[p] \notin {ParseDiagnostic, MissingDiagnostic, ExecDiagnostic}

----------------------------------------------------------------------------
\* The payload of the weather provider has no current temperature
LacksReading(reply) ==
    /\ reply.kind = "json"
    /\ \/ "current" \notin DOMAIN reply.data
       \/ "temperature_2m" \notin DOMAIN reply.data["current"]

\* The call is a weather lookup with both of its arguments
WeatherCall(tool_call) ==
    /\ tool_call.name = "get_weather"
    /\ HasArgument(tool_call, "latitude")
    /\ HasArgument(tool_call, "longitude")

\* The step just taken is the dispatch of tool_call answered with reply
DispatchedWith(tool_call, reply) ==
    LET r == CallTool(tool_call, reply, CHOOSE proc \in ProcOutcomes : TRUE, FALSE)
    IN  /\ messages' = messages \o Appended(tool_call, r)
        /\ Last(out') = IF r.raised = "none" THEN ToolResult
                        ELSE ExceptClause(r.raised)

\* C12 as stated: a weather lookup whose payload lacks the current
\* temperature is a tool execution failure: no value stands in for the
\* reading, no tool message is appended for the call, and the failure is
\* reported as the failure of the tool.
MissingReadingFailsTool ==
    [][(QuietDispatchStep /\ WeatherCall(Last(dispatched'))) =>
          \A reply \in WeatherReplies :
              (LacksReading(reply) /\ DispatchedWith(Last(dispatched'), reply))
              => /\ messages' = messages
                 /\ Last(out') = ExecDiagnostic]_vars

----------------------------------------------------------------------------
\* C13 as stated: the diagnostic of a failed tool call tells the category of
\* the failure: the parse diagnostic is printed exactly for arguments that
\* do not parse, the missing-argument diagnostic exactly for a call that
\* lacks an argument, so a failure raised inside an implementation is
\* reported as neither of the two.
DiagnosticsTellCategories ==
    [][DispatchStep =>
          /\ Last(out') = ParseDiagnostic <=> ParseFailure(Last(dispatched'))
          /\ Last(out') = MissingDiagnostic <=> LacksArgument(Last(dispatched'))]_vars

----------------------------------------------------------------------------
\* C14: the conversation only grows: every step leaves the messages it
\* found in place and in order, so the conversation of any earlier moment
\* is a prefix of the conversation of every later one, and the first
\* message stays the system prompt.
ConversationAppendOnly ==
    /\ [][IsPrefix(messages, messages')]_vars
    /\ [](messages # <<>> /\ messages[1] = Msg("system", SystemPrompt))

\* A turn was abandoned, the next line was appended to the same
\* conversation, and the request of that turn failed
GrownAfterAbandonAndFailure ==
    /\ pc = "AwaitingUserInput"
    /\ Cardinality(UserPositions) = 2
    /\ Cardinality({ k \in 1..LastUser : BearsCalls(messages[k]) }) = max_iterations
    /\ \E p \in 1..Len(out) :
          /\ out[p] = AbandonWarning
          /\ \E q \in (p + 1)..Len(out) : out[q] = CompletionDiagnostic

----------------------------------------------------------------------------
\* The step just taken was a completion request that returned a reply
ReplyStep == invocations' = invocations + 1 /\ ~FailureStep

\* The step just taken ended the for loop over the calls of a reply
LastDispatchStep == DispatchStep /\ Len(dispatched') = Len(completion.tool_calls)

\* C15: in a turn a reply is followed by another completion request exactly
\* when it carried tool calls and iteration is below max_iterations once
\* they are dispatched; a reply with no tool calls, with or without text,
\* ends the turn at Done, where no request is made.
AgainOnlyAfterToolCalls ==
    /\ [][ReplyStep =>
             /\ pc = "AwaitingCompletion"
             /\ (completion'.tool_calls = <<>>) <=> (pc' = "Done")
             /\ (completion'.tool_calls # <<>>) <=> (pc' = "DispatchingTools")]_vars
    /\ [][LastDispatchStep =>
             /\ (iteration < max_iterations) <=> (pc' = "AwaitingCompletion")
             /\ (iteration >= max_iterations) <=> (pc' = "Exhausted")]_vars
    /\ [][pc = "AwaitingCompletion" =>
             invocations' = invocations + 1 \/ pc' = "Aborted"]_vars
    /\ [][(pc \in {"Done", "Exhausted"}) =>
             /\ invocations' = invocations
             /\ pc' \in {"AwaitingUserInput", "Aborted"}]_vars
    /\ [](pc = "Done" => completion.tool_calls = <<>>)

\* The second reply of a turn had text and no tool calls: the turn is Done
DoneOnTextAfterTools ==
    /\ pc = "Done"
    /\ invocations = 2
    /\ TurnToolReplies = 1
    /\ completion.content # NoContent

----------------------------------------------------------------------------
Diagnostics == {ParseDiagnostic, MissingDiagnostic, ExecDiagnostic}

\* C16: a tool call that ends in a diagnostic ends neither the turn nor the
\* session: the for loop goes on to the next call of the reply, and after
\* the last call the while test is made as after a call that succeeded.
ToolErrorKeepsLoopGoing ==
    [][DispatchStep =>
          /\ Last(out') \in Diagnostics \cup {ToolResult}
          /\ idx' = idx + 1
          /\ iteration' = iteration
          /\ completion' = completion
          /\ idx < Len(completion.tool_calls) =>
                /\ pc' = "DispatchingTools"
                /\ idx' <= Len(completion'.tool_calls)
          /\ idx = Len(completion.tool_calls) =>
                pc' = IF iteration < max_iterations THEN "AwaitingCompletion"
                      ELSE "Exhausted"]_vars

\* The first call of a reply failed, the second was made and succeeded, and
\* the loop is about to ask for the next completion
SecondCallAfterFailedFirst ==
    /\ pc = "AwaitingCompletion"
    /\ Len(dispatched) = 2
    /\ Len(out) >= 4
    /\ SubSeq(out, Len(out) - 3, Len(out)) \in
          { <<ToolRequest, d, ToolRequest, ToolResult>> : d \in Diagnostics }

----------------------------------------------------------------------------
\* A turn is under way
InTurn == pc \in {"AwaitingCompletion", "DispatchingTools", "Done", "Failed",
                  "Exhausted"}

\* C17: every turn ends: when every request and every tool call returns or
\* fails, a turn comes back to the prompt (or a signal ends the session),
\* whatever the replies and the tool outcomes are, and it has made at most
\* max_iterations (5) completion requests by then.
TurnTerminates ==
    /\ InTurn ~> (pc \in {"AwaitingUserInput", "Aborted"})
    /\ [](invocations <= 5)
    /\ [][invocations' < invocations => pc = "AwaitingUserInput"]_vars

\* A turn is back at the prompt after five requests, the fifth reply having
\* no tool calls
BackAtPromptAfterFifthReply ==
    /\ pc = "AwaitingUserInput"
    /\ invocations = max_iterations
    /\ TurnToolReplies = max_iterations - 1
    /\ completion.tool_calls = <<>>

----------------------------------------------------------------------------
\* The calls of a reply have been dispatched and the next request is due
NextRequestDue == pc = "AwaitingCompletion" /\ iteration > 0

\* Call k of the reply just dispatched was skipped: its announcement is
\* followed by a diagnostic
Skipped(k) ==
    out[Len(out) - 2 * (Len(completion.tool_calls) - k)] \in Diagnostics

\* The position of the assistant message of the reply just dispatched
ReplyPosition == Owner(Len(messages) + 1)

ToolMessagesWith(id, from) ==
    { i \in ToolPositions : i >= from /\ messages[i].tool_call_id = id }

\* C18 as stated: when the next request is due, the conversation holds the
\* assistant message with the id of every call of the reply, no tool
\* message with the id of a skipped call, and, when no call was skipped,
\* exactly one tool message with the id of each call.
SkippedIdsUnanswered ==
    NextRequestDue =>
        LET n == Len(completion.tool_calls)
        IN  /\ \A k \in 1..n :
                  /\ \E j \in Bearing :
                        completion.tool_calls[k].id \in Ids(messages[j].tool_calls)
                  /\ Skipped(k) =>
                        ToolMessagesWith(completion.tool_calls[k].id, 1) = {}
            /\ (\A k \in 1..n : ~Skipped(k)) =>
                  \A k \in 1..n :
                      Cardinality(ToolMessagesWith(completion.tool_calls[k].id, 1)) = 1

\* C18 amended: when the next request is due, the conversation ends with
\* the assistant message of the reply and, after it, one tool message for
\* every call that was not skipped and none for a skipped call; tool
\* messages of earlier replies may carry the same ids.
SkippedIdsUnansweredSinceReply ==
    NextRequestDue =>
        LET n == Len(completion.tool_calls)
            j == ReplyPosition
        IN  /\ j > 0
            /\ messages[j] = CompletionMsg(completion)
            /\ \A i \in (j + 1)..Len(messages) : messages[i].role = "tool"
            /\ \A k \in 1..n :
                  Cardinality(ToolMessagesWith(completion.tool_calls[k].id, j))
                      = IF Skipped(k) THEN 0 ELSE 1

\* The next request is due after a skipped call whose id an earlier reply
\* had used for a call that was answered
SkippedCallWithUsedId ==
    /\ NextRequestDue
    /\ \E k \in 1..Len(completion.tool_calls) :
          /\ Skipped(k)
          /\ ToolMessagesWith(completion.tool_calls[k].id, 1) # {}

----------------------------------------------------------------------------
\* The for loop over the calls of the reply has ended
DispatchOver == pc \in {"AwaitingCompletion", "Exhausted"} /\ iteration > 0

\* The ids of the calls of the reply that were not skipped, in call order
AnsweredIds ==
    LET kept == SelectSeq([k \in 1..Len(completion.tool_calls) |-> k],
                          LAMBDA k : ~Skipped(k))
    IN  [p \in 1..Len(kept) |-> completion.tool_calls[kept[p]].id]

\* C19: a reply appends, in this order, an assistant message with its text
\* if it has text, the tool-call-bearing message if it has calls, and then
\* one tool message for each call that is not skipped, in call order; a
\* reply with neither text nor calls appends nothing.
AppendedInOrder ==
    /\ [][ReplyStep =>
             messages' = messages
                \o (IF completion'.content # NoContent
                    THEN << [role |-> "assistant", content |-> completion'.content,
                             tool_calls |-> <<>>, tool_call_id |-> 0] >>
                    ELSE <<>>)
                \o (IF completion'.tool_calls # <<>>
                    THEN << [role |-> "assistant", content |-> completion'.content,
                             tool_calls |-> completion'.tool_calls,
                             tool_call_id |-> 0] >>
                    ELSE <<>>)]_vars
    /\ [][DispatchStep =>
             IF Last(out') = ToolResult
             THEN /\ Len(messages') = Len(messages) + 1
                  /\ SubSeq(messages', 1, Len(messages)) = messages
                  /\ Last(messages').role = "tool"
                  /\ Last(messages').tool_call_id = completion.tool_calls[idx].id
             ELSE messages' = messages]_vars
    /\ [](DispatchOver =>
            LET j == ReplyPosition
                tail == SubSeq(messages, j + 1, Len(messages))
            IN  /\ j > 0
                /\ messages[j].tool_calls = completion.tool_calls
                /\ completion.content # NoContent =>
                      /\ messages[j - 1].role = "assistant"
                      /\ messages[j - 1].content = completion.content
                      /\ messages[j - 1].tool_calls = <<>>
                /\ [p \in 1..Len(tail) |-> tail[p].role]
                      = [p \in 1..Len(tail) |-> "tool"]
                /\ [p \in 1..Len(tail) |-> tail[p].tool_call_id] = AnsweredIds)

\* A reply with text and two calls, the first answered and the second
\* skipped, has been dispatched
TextThenCallsThenResult ==
    /\ DispatchOver
    /\ completion.content # NoContent
    /\ Len(completion.tool_calls) = 2
    /\ ~Skipped(1)
    /\ Skipped(2)
    /\ Last(messages).role = "tool"

----------------------------------------------------------------------------
\* C20: a line that is not quit appends exactly one user message and sets
\* iteration to 0, so the first request of a turn is made with a
\* conversation that ends with the line, and iteration counts the requests
\* of the turn alone: a turn may make max_iterations of them whatever the
\* turns before have made.
TurnStartsAfresh ==
    /\ [][(ReadStep /\ pc' # "Exited") =>
             /\ messages' = Append(messages, Msg("user", user_prompt'))
             /\ iteration' = 0
             /\ pc' = "AwaitingCompletion"]_vars
    /\ [][Cardinality(UserPositions') # Cardinality(UserPositions) =>
             ReadStep /\ Cardinality(UserPositions') = Cardinality(UserPositions) + 1]_vars
    /\ []((pc = "AwaitingCompletion" /\ invocations = 0) =>
             Last(messages) = Msg("user", user_prompt))
    /\ [](InTurn => iteration = invocations)
    /\ [][(pc = "AwaitingCompletion" /\ invocations < 5) =>
             invocations' = invocations + 1 \/ pc' = "Aborted"]_vars

\* The second turn has made five requests after a first turn that made some
FiveRequestsInSecondTurn ==
    /\ Cardinality(UserPositions) = 2
    /\ \E k \in Bearing : k < LastUser
    /\ invocations = max_iterations
    /\ iteration = max_iterations

====
